---- MODULE Spec2Model ----
(***************************************************************************)
(* A model of the manifest-amm SDK: the resting-order book of a market,   *)
(* the global ledger that backs Global orders, and the two read-only      *)
(* impact simulators that walk one side of the book.                      *)
(*                                                                         *)
(* A book side is kept as the sequence of its resting orders in the order *)
(* in which the red-black tree iterates them (best price first).          *)
(***************************************************************************)
EXTENDS Integers, Sequences, FiniteSets, TLC

VARIABLES
    bids,               \* MarketFixed.bids_root_index: the bid side, in iteration order
    asks,               \* MarketFixed.asks_root_index: the ask side, in iteration order
    order_sequence_number, \* MarketFixed.order_sequence_number
    globals,            \* the two global accounts (base mint, quote mint)
    market,             \* MarketFixed.free_list_head_index, num_bytes_allocated and the blocks
    account,            \* an account as a loader is handed it: owner, data, borrow state
    last                \* the last operation called, its arguments and what it returned

vars == <<bids, asks, order_sequence_number, globals, market, account, last>>

-----------------------------------------------------------------------------
(* Bounds of the model. *)

\* The largest number of resting orders on the side of the book that is walked.
MaxOrders == 2
\* The model's stand-in for u64::MAX, the largest atom quantity.
U64Max == 255
\* The largest order_sequence_number handed out.
MaxSeq == 3
\* The largest slot an order is given as its last valid slot.
MaxSlot == 2
\* The largest index of a block holding a deposit node of a global account.
MaxDataIndex == 3
\* The largest number of shared borrows of an account's data held at once.
MaxReaders == 2
\* The model's stand-in for u128::MAX, the largest raw value of a price.
U128Max == 2000000000
\* The largest number of blocks the data of the market holds.
MaxBlocks == 4
\* The size of a fixed header (size_of::<T>()), in the model's bytes.
HeaderSize == 2

(* The fixed-point scale of a price: a price of inner value p is p / PriceScale *)
(* quote atoms per base atom.                                                   *)
PriceScale == 2

NO_EXPIRATION_LAST_VALID_SLOT == 0

None == [some |-> FALSE]
Some(v) == [some |-> TRUE, value |-> v]

Ok(v) == [ok |-> TRUE, val |-> v]
Err == [ok |-> FALSE, val |-> 0]

Min(a, b) == IF a <= b THEN a ELSE b

-----------------------------------------------------------------------------
(* quantities: checked arithmetic on atoms and the price conversions. *)

checked_add(a, b) == IF a + b > U64Max THEN Err ELSE Ok(a + b)

checked_sub(a, b) == IF a < b THEN Err ELSE Ok(a - b)

\* quote = price * base / scale, rounded up or down; an error beyond u64.
checked_quote_for_base(price, base_atoms, round_up) ==
    LET product == price * base_atoms
        quote == IF round_up
                 THEN (product + PriceScale - 1) \div PriceScale
                 ELSE product \div PriceScale
    IN IF quote > U64Max THEN Err ELSE Ok(quote)

\* base = quote * scale / price, rounded up or down; an error beyond u64.
checked_base_for_quote(price, quote_atoms, round_up) ==
    IF price = 0 THEN Ok(0)
    ELSE LET dividend == PriceScale * quote_atoms
             base == IF round_up
                     THEN (dividend + price - 1) \div price
                     ELSE dividend \div price
         IN IF base > U64Max THEN Err ELSE Ok(base)

-----------------------------------------------------------------------------
(* state/resting_order.rs *)

OrderTypes == {"Limit", "ImmediateOrCancel", "PostOnly", "Global", "Reverse", "ReverseTight"}

is_reversible(order_type) == order_type \in {"Reverse", "ReverseTight"}

\* RestingOrder::new without its assert.
RestingOrder_new_unasserted(trader_index, num_base_atoms, price, sequence_number, last_valid_slot, is_bid, order_type) ==
    [ok |-> TRUE,
     order |-> [trader_index |-> trader_index,
                num_base_atoms |-> num_base_atoms,
                last_valid_slot |-> last_valid_slot,
                price |-> price,
                sequence_number |-> sequence_number,
                is_bid |-> is_bid,
                order_type |-> order_type,
                reverse_spread |-> 0]]

\* RestingOrder::new: the assert aborts construction (ok = FALSE).
RestingOrder_new(trader_index, num_base_atoms, price, sequence_number, last_valid_slot, is_bid, order_type) ==
    IF is_reversible(order_type) /\ last_valid_slot # NO_EXPIRATION_LAST_VALID_SLOT
    THEN [ok |-> FALSE]
    ELSE [ok |-> TRUE,
          order |-> [trader_index |-> trader_index,
                     num_base_atoms |-> num_base_atoms,
                     last_valid_slot |-> last_valid_slot,
                     price |-> price,
                     sequence_number |-> sequence_number,
                     is_bid |-> is_bid,
                     order_type |-> order_type,
                     reverse_spread |-> 0]]

\* is_expired with the last valid slot itself counted as expired.
is_expired_at_last_valid_slot(order, current_slot) ==
    /\ order.last_valid_slot # NO_EXPIRATION_LAST_VALID_SLOT
    /\ order.last_valid_slot <= current_slot

is_expired(order, current_slot) ==
    /\ order.last_valid_slot # NO_EXPIRATION_LAST_VALID_SLOT
    /\ order.last_valid_slot < current_slot

\* u128 comparison of two prices.
price_cmp(a, b) == IF a < b THEN "Less" ELSE IF a = b THEN "Equal" ELSE "Greater"

\* A comparison that ranks asks as it ranks bids.
cmp_by_price(self, other) == price_cmp(self.price, other.price)

\* impl Ord for RestingOrder
cmp(self, other) ==
    IF self.is_bid THEN price_cmp(self.price, other.price)
    ELSE price_cmp(other.price, self.price)

(* QuoteAtomsPerBaseAtom::checked_multiply_rational: the raw price times  *)
(* numerator / denominator, rounded down or up; an error when the          *)
(* denominator is zero or the product leaves u128.                         *)
checked_multiply_rational(price, numerator, denominator, round_up) ==
    IF denominator = 0
    THEN Err
    ELSE IF numerator # 0 /\ price > U128Max \div numerator
    THEN Err
    ELSE LET product == price * numerator
             quotient == product \div denominator
         IN Ok(IF round_up /\ product % denominator # 0 THEN quotient + 1 ELSE quotient)

\* reverse_price scaling the price of a bid as it scales that of an ask.
reverse_price_scaling_down(order) ==
    IF ~is_reversible(order.order_type)
    THEN Ok(order.price)
    ELSE LET base == IF order.order_type = "Reverse" THEN 100000 ELSE 100000000
         IN checked_multiply_rational(order.price, base - order.reverse_spread, base,
                                      ~order.is_bid)

\* reverse_price with the conversions of the two sides exchanged.
reverse_price_sides_exchanged(order) ==
    IF ~is_reversible(order.order_type)
    THEN Ok(order.price)
    ELSE LET base == IF order.order_type = "Reverse" THEN 100000 ELSE 100000000
         IN IF order.is_bid
            THEN checked_multiply_rational(order.price, base - order.reverse_spread, base,
                                           TRUE)
            ELSE checked_multiply_rational(order.price, base, base - order.reverse_spread,
                                           FALSE)

\* RestingOrder::reverse_price
reverse_price(order) ==
    IF ~is_reversible(order.order_type)
    THEN Ok(order.price)
    ELSE LET base == IF order.order_type = "Reverse" THEN 100000 ELSE 100000000
         IN IF order.is_bid
            THEN checked_multiply_rational(order.price, base, base - order.reverse_spread,
                                           FALSE)
            ELSE checked_multiply_rational(order.price, base - order.reverse_spread, base,
                                           TRUE)

\* RestingOrder::set_reverse_spread
set_reverse_spread(order, spread) == [order EXCEPT !.reverse_spread = spread]

\* What a function returns, or that it panicked.
Returned(v) == [panicked |-> FALSE, value |-> v]
Panicked == [panicked |-> TRUE]

\* An equality that looks at the prices only.
eq_by_price(self, other, overflow_checks) ==
    IF is_reversible(self.order_type)
    THEN IF self.price = other.price
         THEN Returned(TRUE)
         ELSE IF self.price = U128Max /\ overflow_checks
         THEN Panicked
         ELSE IF (IF self.price = U128Max THEN 0 ELSE self.price + 1) = other.price
         THEN Returned(TRUE)
         ELSE IF self.price = 0 /\ overflow_checks
         THEN Panicked
         ELSE Returned((IF self.price = 0 THEN U128Max ELSE self.price - 1) = other.price)
    ELSE Returned(self.price = other.price)

(* impl PartialEq for RestingOrder. The u128 price + 1 and price - 1 are   *)
(* computed as the build computes them: with overflow checks a sum or      *)
(* difference that leaves u128 panics, without them it wraps around. || is *)
(* evaluated from the left and stops at the first true operand.            *)
eq(self, other, overflow_checks) ==
    IF self.trader_index # other.trader_index \/ self.order_type # other.order_type
    THEN Returned(FALSE)
    ELSE IF is_reversible(self.order_type)
    THEN IF self.price = other.price
         THEN Returned(TRUE)
         ELSE IF self.price = U128Max /\ overflow_checks
         THEN Panicked
         ELSE IF (IF self.price = U128Max THEN 0 ELSE self.price + 1) = other.price
         THEN Returned(TRUE)
         ELSE IF self.price = 0 /\ overflow_checks
         THEN Panicked
         ELSE Returned((IF self.price = 0 THEN U128Max ELSE self.price - 1) = other.price)
    ELSE Returned(self.price = other.price)

-----------------------------------------------------------------------------
(* state/claimed_seat.rs, state/global.rs, utils.rs *)

\* The traders known to the model.
TraderKeys == {"A", "B"}

\* The claimed seats of the market: the seat at each index and its trader.
claimed_seats == [i \in {1, 2} |-> [trader |-> IF i = 1 THEN "A" ELSE "B"]]

get_trader_key_by_index(index) == claimed_seats[index].trader

(* A global account: traders maps each registered trader to the index of   *)
(* its deposit node, deposits holds the deposit nodes, borrow is the state *)
(* of the RefCell around the account's data: 0 when nothing holds the      *)
(* data, the number of shared borrows when it is read, -1 when it is       *)
(* borrowed mutably.                                                       *)

\* The lookup taking the deposit node of the lowest index, not the linked one.
get_global_deposit_lowest_node(global, trader) ==
    IF trader \notin DOMAIN global.traders
    THEN None
    ELSE Some(global.deposits[CHOOSE i \in DOMAIN global.deposits :
                                 \A j \in DOMAIN global.deposits : i <= j])

get_global_deposit(global, trader) ==
    IF trader \notin DOMAIN global.traders
    THEN None
    ELSE Some(global.deposits[global.traders[trader]])

get_balance_atoms(global, trader) ==
    LET global_balance_or == get_global_deposit(global, trader)
    IN IF global_balance_or.some
       THEN global_balance_or.value.balance_atoms
       ELSE 0

\* AccountInfo::try_borrow_data: a shared borrow, refused only by a mutable one.
try_borrow_data(global) == global.borrow >= 0

\* AccountInfo::try_borrow_mut_data succeeds only when nothing holds the data.
try_borrow_mut_data(global) == global.borrow = 0

\* can_back_order asking for more than the desired atoms.
can_back_order_strict(global_trade_accounts_opt, resting_order_trader, desired_global_atoms) ==
    IF ~global_trade_accounts_opt.some
    THEN FALSE
    ELSE IF ~try_borrow_mut_data(global_trade_accounts_opt.value)
    THEN FALSE
    ELSE desired_global_atoms
            < get_balance_atoms(global_trade_accounts_opt.value, resting_order_trader)

can_back_order(global_trade_accounts_opt, resting_order_trader, desired_global_atoms) ==
    IF ~global_trade_accounts_opt.some
    THEN FALSE
    ELSE IF ~try_borrow_mut_data(global_trade_accounts_opt.value)
    THEN FALSE
    ELSE desired_global_atoms
            <= get_balance_atoms(global_trade_accounts_opt.value, resting_order_trader)

-----------------------------------------------------------------------------
(* state/market.rs: the impact simulators. *)

is_unbacked_global_order(resting_order, is_bid, global_trade_accounts_opt, matched_base_atoms, matched_quote_atoms) ==
    IF resting_order.order_type = "Global"
    THEN IF ~global_trade_accounts_opt.some
         THEN TRUE
         ELSE ~can_back_order(global_trade_accounts_opt,
                              get_trader_key_by_index(resting_order.trader_index),
                              IF is_bid THEN matched_base_atoms ELSE matched_quote_atoms)
    ELSE FALSE

\* The side a taker walks, and the global account that backs it.
walked_book(b, a, is_bid) == IF is_bid THEN a ELSE b

required_global_opt(global_trade_accounts_opts, is_bid) ==
    IF is_bid THEN global_trade_accounts_opts[1] ELSE global_trade_accounts_opts[2]

(* The state of a walk: the running total, what is left of the caller's cap *)
(* and where control goes: "next" (go on with the following order), "break" *)
(* (the loop is left) or "err" (the call returns an error).                 *)
LoopState(total, remaining, ctl) == [total |-> total, remaining |-> remaining, ctl |-> ctl]

\* The match with the whole resting order matched, whatever is left of the cap.
impact_quote_match_whole_order(resting_order, s, is_bid, opt) ==
    LET matched_price == resting_order.price
        resting_base_atoms == resting_order.num_base_atoms
        matched_base_atoms == resting_base_atoms
        did_fully_match_resting_order == s.remaining >= resting_base_atoms
        matched_quote_atoms ==
            checked_quote_for_base(matched_price, matched_base_atoms,
                                   is_bid # did_fully_match_resting_order)
    IN IF ~matched_quote_atoms.ok
       THEN LoopState(s.total, s.remaining, "err")
       ELSE IF is_unbacked_global_order(resting_order, is_bid, opt,
                                        matched_base_atoms, matched_quote_atoms.val)
       THEN s
       ELSE
       LET total == checked_add(s.total, matched_quote_atoms.val)
           remaining == checked_sub(s.remaining, matched_base_atoms)
       IN IF ~total.ok
          THEN LoopState(s.total, s.remaining, "err")
          ELSE IF ~did_fully_match_resting_order
          THEN LoopState(total.val, s.remaining, "break")
          ELSE IF ~remaining.ok
          THEN LoopState(total.val, s.remaining, "err")
          ELSE LoopState(total.val, remaining.val, "next")

\* The match with every quote amount rounded down.
impact_quote_match_rounding_down(resting_order, s, is_bid, opt) ==
    LET matched_price == resting_order.price
        resting_base_atoms == resting_order.num_base_atoms
        matched_base_atoms == Min(resting_base_atoms, s.remaining)
        did_fully_match_resting_order == s.remaining >= resting_base_atoms
        matched_quote_atoms ==
            checked_quote_for_base(matched_price, matched_base_atoms, FALSE)
    IN IF ~matched_quote_atoms.ok
       THEN LoopState(s.total, s.remaining, "err")
       ELSE IF is_unbacked_global_order(resting_order, is_bid, opt,
                                        matched_base_atoms, matched_quote_atoms.val)
       THEN s
       ELSE
       LET total == checked_add(s.total, matched_quote_atoms.val)
           remaining == checked_sub(s.remaining, matched_base_atoms)
       IN IF ~total.ok
          THEN LoopState(s.total, s.remaining, "err")
          ELSE IF ~did_fully_match_resting_order
          THEN LoopState(total.val, s.remaining, "break")
          ELSE IF ~remaining.ok
          THEN LoopState(total.val, s.remaining, "err")
          ELSE LoopState(total.val, remaining.val, "next")

(* The rest of an iteration of impact_quote_atoms_with_slot, once the order *)
(* is neither expired nor a Global order without its account: the match.   *)
impact_quote_match(resting_order, s, is_bid, opt) ==
    LET matched_price == resting_order.price
        resting_base_atoms == resting_order.num_base_atoms
        matched_base_atoms == Min(resting_base_atoms, s.remaining)
        did_fully_match_resting_order == s.remaining >= resting_base_atoms
        matched_quote_atoms ==
            checked_quote_for_base(matched_price, matched_base_atoms,
                                   is_bid # did_fully_match_resting_order)
    IN IF ~matched_quote_atoms.ok
       THEN LoopState(s.total, s.remaining, "err")
       ELSE IF is_unbacked_global_order(resting_order, is_bid, opt,
                                        matched_base_atoms, matched_quote_atoms.val)
       THEN s
       ELSE
       LET total == checked_add(s.total, matched_quote_atoms.val)
           remaining == checked_sub(s.remaining, matched_base_atoms)
       IN IF ~total.ok
          THEN LoopState(s.total, s.remaining, "err")
          ELSE IF ~did_fully_match_resting_order
          THEN LoopState(total.val, s.remaining, "break")
          ELSE IF ~remaining.ok
          THEN LoopState(total.val, s.remaining, "err")
          ELSE LoopState(total.val, remaining.val, "next")

\* The iteration with the check of the global account ahead of that of expiration.
impact_quote_step_global_first(resting_order, s, is_bid, opt, now_slot) ==
    IF resting_order.order_type = "Global" /\ ~opt.some
    THEN LoopState(s.total, s.remaining, "break")
    ELSE IF is_expired(resting_order, now_slot)
    THEN s
    ELSE impact_quote_match(resting_order, s, is_bid, opt)

\* One iteration of the loop of impact_quote_atoms_with_slot.
impact_quote_step(resting_order, s, is_bid, opt, now_slot) ==
    IF is_expired(resting_order, now_slot)
    THEN s
    ELSE IF resting_order.order_type = "Global" /\ ~opt.some
    THEN LoopState(s.total, s.remaining, "break")
    ELSE impact_quote_match(resting_order, s, is_bid, opt)

\* The match that never leaves the loop.
impact_base_match_walking_on(resting_order, s, is_bid, opt) ==
    LET matched_price == resting_order.price
        base_atoms_limit == checked_base_for_quote(matched_price, s.remaining, ~is_bid)
    IN IF ~base_atoms_limit.ok
       THEN LoopState(s.total, s.remaining, "err")
       ELSE
       LET matched_base_atoms == Min(resting_order.num_base_atoms, base_atoms_limit.val)
           did_fully_match_resting_order ==
               base_atoms_limit.val >= resting_order.num_base_atoms
           matched_quote_atoms ==
               checked_quote_for_base(matched_price, matched_base_atoms,
                                      is_bid # did_fully_match_resting_order)
       IN IF ~matched_quote_atoms.ok
          THEN LoopState(s.total, s.remaining, "err")
          ELSE IF is_unbacked_global_order(resting_order, is_bid, opt,
                                           matched_base_atoms, matched_quote_atoms.val)
          THEN s
          ELSE
          LET total == checked_add(s.total, matched_base_atoms)
              remaining == checked_sub(s.remaining, matched_quote_atoms.val)
          IN IF ~total.ok
             THEN LoopState(s.total, s.remaining, "err")
             ELSE IF ~did_fully_match_resting_order
             THEN LoopState(total.val, s.remaining, "next")
             ELSE IF ~remaining.ok
             THEN LoopState(total.val, s.remaining, "err")
             ELSE LoopState(total.val, remaining.val, "next")

\* The match with sums and differences that saturate at the ends of u64.
impact_base_match_saturating(resting_order, s, is_bid, opt) ==
    LET matched_price == resting_order.price
        base_atoms_limit == checked_base_for_quote(matched_price, s.remaining, ~is_bid)
    IN IF ~base_atoms_limit.ok
       THEN LoopState(s.total, s.remaining, "err")
       ELSE
       LET matched_base_atoms == Min(resting_order.num_base_atoms, base_atoms_limit.val)
           did_fully_match_resting_order ==
               base_atoms_limit.val >= resting_order.num_base_atoms
           matched_quote_atoms ==
               checked_quote_for_base(matched_price, matched_base_atoms,
                                      is_bid # did_fully_match_resting_order)
       IN IF ~matched_quote_atoms.ok
          THEN LoopState(s.total, s.remaining, "err")
          ELSE IF is_unbacked_global_order(resting_order, is_bid, opt,
                                           matched_base_atoms, matched_quote_atoms.val)
          THEN s
          ELSE
          LET total == Min(s.total + matched_base_atoms, U64Max)
              remaining == IF s.remaining < matched_quote_atoms.val
                           THEN 0
                           ELSE s.remaining - matched_quote_atoms.val
          IN IF ~did_fully_match_resting_order
             THEN LoopState(total, s.remaining, "break")
             ELSE IF remaining = 0
             THEN LoopState(total, remaining, "break")
             ELSE LoopState(total, remaining, "next")

\* The match of an iteration of impact_base_atoms_with_slot.
impact_base_match(resting_order, s, is_bid, opt) ==
    LET matched_price == resting_order.price
        base_atoms_limit == checked_base_for_quote(matched_price, s.remaining, ~is_bid)
    IN IF ~base_atoms_limit.ok
       THEN LoopState(s.total, s.remaining, "err")
       ELSE
       LET matched_base_atoms == Min(resting_order.num_base_atoms, base_atoms_limit.val)
           did_fully_match_resting_order ==
               base_atoms_limit.val >= resting_order.num_base_atoms
           matched_quote_atoms ==
               checked_quote_for_base(matched_price, matched_base_atoms,
                                      is_bid # did_fully_match_resting_order)
       IN IF ~matched_quote_atoms.ok
          THEN LoopState(s.total, s.remaining, "err")
          ELSE IF is_unbacked_global_order(resting_order, is_bid, opt,
                                           matched_base_atoms, matched_quote_atoms.val)
          THEN s
          ELSE
          LET total == checked_add(s.total, matched_base_atoms)
              remaining == checked_sub(s.remaining, matched_quote_atoms.val)
          IN IF ~total.ok
             THEN LoopState(s.total, s.remaining, "err")
             ELSE IF ~did_fully_match_resting_order
             THEN LoopState(total.val, s.remaining, "break")
             ELSE IF ~remaining.ok
             THEN LoopState(total.val, s.remaining, "err")
             ELSE IF remaining.val = 0
             THEN LoopState(total.val, remaining.val, "break")
             ELSE LoopState(total.val, remaining.val, "next")

\* The loop body with the walk going on past a Global order without its account.
impact_base_step_no_stop(resting_order, s, is_bid, opt, now_slot) ==
    IF is_expired(resting_order, now_slot)
    THEN s
    ELSE IF resting_order.order_type = "Global" /\ ~opt.some
    THEN s
    ELSE impact_base_match(resting_order, s, is_bid, opt)

\* One iteration of the loop of impact_base_atoms_with_slot.
impact_base_step(resting_order, s, is_bid, opt, now_slot) ==
    IF is_expired(resting_order, now_slot)
    THEN s
    ELSE IF resting_order.order_type = "Global" /\ ~opt.some
    THEN LoopState(s.total, s.remaining, "break")
    ELSE impact_base_match(resting_order, s, is_bid, opt)

\* The loop: the state in which the walk of book is at its order i (or past the end).
RECURSIVE impact_quote_walk(_, _, _, _, _, _)
impact_quote_walk(book, i, s, is_bid, opt, now_slot) ==
    IF i > Len(book) \/ s.ctl # "next"
    THEN s
    ELSE impact_quote_walk(book, i + 1,
                           impact_quote_step(book[i], s, is_bid, opt, now_slot),
                           is_bid, opt, now_slot)

RECURSIVE impact_base_walk(_, _, _, _, _, _)
impact_base_walk(book, i, s, is_bid, opt, now_slot) ==
    IF i > Len(book) \/ s.ctl # "next"
    THEN s
    ELSE impact_base_walk(book, i + 1,
                          impact_base_step(book[i], s, is_bid, opt, now_slot),
                          is_bid, opt, now_slot)

WalkResult(s) == IF s.ctl = "err" THEN Err ELSE Ok(s.total)

\* The simulator returning an error when the book runs out before the cap.
impact_quote_atoms_signalling_underfill(b, a, is_bid, limit_base_atoms, global_trade_accounts_opts, now_slot) ==
    LET s == impact_quote_walk(walked_book(b, a, is_bid), 1,
                               LoopState(0, limit_base_atoms, "next"), is_bid,
                               required_global_opt(global_trade_accounts_opts, is_bid),
                               now_slot)
    IN IF s.ctl = "next" /\ s.remaining > 0 THEN Err ELSE WalkResult(s)

impact_quote_atoms_with_slot(b, a, is_bid, limit_base_atoms, global_trade_accounts_opts, now_slot) ==
    WalkResult(impact_quote_walk(walked_book(b, a, is_bid), 1,
                                 LoopState(0, limit_base_atoms, "next"), is_bid,
                                 required_global_opt(global_trade_accounts_opts, is_bid),
                                 now_slot))

impact_base_atoms_with_slot(b, a, is_bid, limit_quote_atoms, global_trade_accounts_opts, now_slot) ==
    WalkResult(impact_base_walk(walked_book(b, a, is_bid), 1,
                                LoopState(0, limit_quote_atoms, "next"), is_bid,
                                required_global_opt(global_trade_accounts_opts, is_bid),
                                now_slot))

-----------------------------------------------------------------------------
(* The market as the impact simulators find it: a book of resting orders  *)
(* and the two global accounts.                                           *)

BookPrices == {3, 4}
BookSizes == {1, 100}
BookOrderTypes == {"Limit", "Global"}
BookLastValidSlots == {0, 2}
Limits == {1, 50, 200}
NowSlots == {2, 3}

\* The resting orders of one side that the model places in a book.
BookOrders(is_bid) ==
    {RestingOrder_new(1, n, p, 0, l, is_bid, o).order :
        n \in BookSizes, p \in BookPrices, l \in BookLastValidSlots, o \in BookOrderTypes}

(* The tree iterates a side from its greatest order (the best price) down: *)
(* no order is followed by a greater one.                                   *)
IsPriorityOrdered(book) ==
    \A i \in 1..Len(book) : \A j \in i..Len(book) : cmp(book[i], book[j]) # "Less"

\* The books of one side, of at most n orders, numbered from first_seq on.
Books(is_bid, n, first_seq) ==
    {[i \in 1..Len(f) |-> [f[i] EXCEPT !.sequence_number = first_seq + i - 1]] :
        f \in {g \in UNION {[1..k -> BookOrders(is_bid)] : k \in 0..n} :
                  IsPriorityOrdered(g)}}

\* The side that is not walked: empty, or holding one limit order.
OtherSides(is_bid, first_seq) ==
    {<<>>, <<RestingOrder_new(1, 100, 4, first_seq, 0, is_bid, "Limit").order>>}

NoCall == [op |-> "none"]

\* hypertree::NIL: the index that no block has.
NIL == -1

\* A market none of whose blocks is allocated yet.
NoBlocks == [free_list_head_index |-> NIL, num_bytes_allocated |-> 0, dynamic |-> <<>>]

\* The value that the first byte of the header of an initialized account holds.
Discriminant == 7

\* An account of the program whose data is an initialized header, not borrowed.
LoadedAccount ==
    [owner |-> "manifest",
     data |-> [i \in 1..HeaderSize |-> IF i = 1 THEN Discriminant ELSE 0],
     borrow |-> 0]

\* The global accounts as the caller of an impact simulator hands them over.
GlobalTradeAccountsOpts(has_base_global, has_quote_global) ==
    << IF has_base_global THEN Some(globals[1]) ELSE None,
       IF has_quote_global THEN Some(globals[2]) ELSE None >>

\* A global account in which trader A holds 50 atoms and trader B holds 250.
FundedGlobal ==
    [traders |-> [t \in {"A", "B"} |-> IF t = "A" THEN 2 ELSE 1],
     deposits |-> [i \in {1, 2} |->
                     IF i = 2 THEN [trader |-> "A", balance_atoms |-> 50]
                     ELSE [trader |-> "B", balance_atoms |-> 250]],
     borrow |-> 0]

Init ==
    /\ \E walked_is_bid \in BOOLEAN :
        \E walked \in Books(walked_is_bid, MaxOrders, 0) :
        \E other \in OtherSides(~walked_is_bid, Len(walked)) :
            /\ bids = IF walked_is_bid THEN walked ELSE other
            /\ asks = IF walked_is_bid THEN other ELSE walked
            /\ order_sequence_number = Len(walked) + Len(other)
    /\ globals = <<FundedGlobal, FundedGlobal>>
    /\ market = NoBlocks
    /\ account = LoadedAccount
    /\ last = NoCall

\* The call taking the orders it walked out of the book.
ImpactQuoteConsuming(is_bid, limit_base_atoms, has_base_global, has_quote_global, now_slot) ==
    /\ last = NoCall
    /\ last' = [op |-> "impact_quote", is_bid |-> is_bid, limit |-> limit_base_atoms,
                has_base_global |-> has_base_global,
                has_quote_global |-> has_quote_global, now_slot |-> now_slot,
                result |-> impact_quote_atoms_with_slot(
                               bids, asks, is_bid, limit_base_atoms,
                               GlobalTradeAccountsOpts(has_base_global, has_quote_global),
                               now_slot)]
    /\ bids' = IF is_bid THEN bids ELSE <<>>
    /\ asks' = IF is_bid THEN <<>> ELSE asks
    /\ UNCHANGED <<order_sequence_number, globals, market, account>>

ImpactQuote(is_bid, limit_base_atoms, has_base_global, has_quote_global, now_slot) ==
    /\ last = NoCall
    /\ last' = [op |-> "impact_quote", is_bid |-> is_bid, limit |-> limit_base_atoms,
                has_base_global |-> has_base_global,
                has_quote_global |-> has_quote_global, now_slot |-> now_slot,
                result |-> impact_quote_atoms_with_slot(
                               bids, asks, is_bid, limit_base_atoms,
                               GlobalTradeAccountsOpts(has_base_global, has_quote_global),
                               now_slot)]
    /\ UNCHANGED <<bids, asks, order_sequence_number, globals, market, account>>

ImpactBase(is_bid, limit_quote_atoms, has_base_global, has_quote_global, now_slot) ==
    /\ last = NoCall
    /\ last' = [op |-> "impact_base", is_bid |-> is_bid, limit |-> limit_quote_atoms,
                has_base_global |-> has_base_global,
                has_quote_global |-> has_quote_global, now_slot |-> now_slot,
                result |-> impact_base_atoms_with_slot(
                               bids, asks, is_bid, limit_quote_atoms,
                               GlobalTradeAccountsOpts(has_base_global, has_quote_global),
                               now_slot)]
    /\ UNCHANGED <<bids, asks, order_sequence_number, globals, market, account>>

Next ==
    \/ \E b \in BOOLEAN, n \in Limits, g1 \in BOOLEAN, g2 \in BOOLEAN, s \in NowSlots :
            ImpactQuote(b, n, g1, g2, s)
    \/ \E b \in BOOLEAN, n \in Limits, g1 \in BOOLEAN, g2 \in BOOLEAN, s \in NowSlots :
            ImpactBase(b, n, g1, g2, s)

Spec == Init /\ [][Next]_vars

-----------------------------------------------------------------------------
(* What the claims speak about, read off the recorded call. *)

LastIsImpact == last.op \in {"impact_quote", "impact_base"}

\* The side the recorded call walked.
LastBook == IF last.is_bid THEN asks ELSE bids

\* Whether the recorded call was given the global account of the walked side.
LastHasGlobal == IF last.is_bid THEN last.has_base_global ELSE last.has_quote_global

LastOpt == IF LastHasGlobal
           THEN Some(IF last.is_bid THEN globals[1] ELSE globals[2])
           ELSE None

\* The recorded call made again on a market whose walked side is book.
SimOn(book) ==
    LET b == IF last.is_bid THEN bids ELSE book
        a == IF last.is_bid THEN book ELSE asks
        opts == GlobalTradeAccountsOpts(last.has_base_global, last.has_quote_global)
    IN IF last.op = "impact_quote"
       THEN impact_quote_atoms_with_slot(b, a, last.is_bid, last.limit, opts, last.now_slot)
       ELSE impact_base_atoms_with_slot(b, a, last.is_bid, last.limit, opts, last.now_slot)

\* The state of the recorded call's walk on reaching the order at index i.
StateAt(i) ==
    IF last.op = "impact_quote"
    THEN impact_quote_walk(SubSeq(LastBook, 1, i - 1), 1,
                           LoopState(0, last.limit, "next"),
                           last.is_bid, LastOpt, last.now_slot)
    ELSE impact_base_walk(SubSeq(LastBook, 1, i - 1), 1,
                          LoopState(0, last.limit, "next"),
                          last.is_bid, LastOpt, last.now_slot)

\* One iteration of the recorded call's loop.
StepAt(order, s) ==
    IF last.op = "impact_quote"
    THEN impact_quote_step(order, s, last.is_bid, LastOpt, last.now_slot)
    ELSE impact_base_step(order, s, last.is_bid, LastOpt, last.now_slot)

\* Expiration as the specification words it.
Expired(order, now_slot) ==
    order.last_valid_slot # 0 /\ order.last_valid_slot < now_slot

\* The indices of the non-expired Global orders of a book.
LiveGlobals(book, now_slot) ==
    {i \in 1..Len(book) : book[i].order_type = "Global" /\ ~Expired(book[i], now_slot)}

SetMin(S) == CHOOSE x \in S : \A y \in S : x <= y

RemoveAt(book, k) == SubSeq(book, 1, k - 1) \o SubSeq(book, k + 1, Len(book))

\* The base atoms the recorded call matches against order when its walk is in state s.
MatchedBase(order, s) ==
    IF last.op = "impact_quote"
    THEN Min(order.num_base_atoms, s.remaining)
    ELSE Min(order.num_base_atoms,
             checked_base_for_quote(order.price, s.remaining, ~last.is_bid).val)

\* Whether that match consumes the whole order.
FullyMatched(order, s) == MatchedBase(order, s) = order.num_base_atoms

\* The quote atoms of that match: a Result, an error when beyond u64.
MatchedQuote(order, s) ==
    checked_quote_for_base(order.price, MatchedBase(order, s),
                           last.is_bid # FullyMatched(order, s))

\* Whether every conversion of that match stays within u64.
ConversionsFit(order, s) ==
    /\ last.op = "impact_base" =>
           checked_base_for_quote(order.price, s.remaining, ~last.is_bid).ok
    /\ MatchedQuote(order, s).ok

\* The balance of a trader in a global account: that of the deposit node naming it.
BalanceOf(global, trader) ==
    LET nodes == {i \in DOMAIN global.deposits : global.deposits[i].trader = trader}
    IN IF nodes = {} \/ trader \notin DOMAIN global.traders
       THEN 0
       ELSE global.deposits[CHOOSE i \in nodes : TRUE].balance_atoms

\* The global atoms the owner of order must hold for its match in state s.
NeededGlobalAtoms(order, s) ==
    IF last.is_bid THEN MatchedBase(order, s) ELSE MatchedQuote(order, s).val

OwnerBalance(order) ==
    BalanceOf(IF last.is_bid THEN globals[1] ELSE globals[2],
              claimed_seats[order.trader_index].trader)

-----------------------------------------------------------------------------
(* C1: with no global account for the walked side, either simulator stops  *)
(* at the first non-expired Global order: the result is the result on the  *)
(* orders ahead of it alone, and 0 when that order is the first.           *)
C1_UnbackedGlobalStopsWalk ==
    (LastIsImpact /\ ~LastHasGlobal /\ LiveGlobals(LastBook, last.now_slot) # {}) =>
        LET first == SetMin(LiveGlobals(LastBook, last.now_slot))
        IN /\ last.result = SimOn(SubSeq(LastBook, 1, first - 1))
           /\ StateAt(first).ctl = "next" =>
                 StepAt(LastBook[first], StateAt(first))
                    = [StateAt(first) EXCEPT !.ctl = "break"]
           /\ first = 1 => last.result = Ok(0)

(* C1 witness: a call without the global account on a book whose first     *)
(* order is a live Global order with a live limit order behind it.         *)
C1_Witness ==
    /\ LastIsImpact /\ ~LastHasGlobal
    /\ Len(LastBook) = 2
    /\ LastBook[1].order_type = "Global" /\ ~Expired(LastBook[1], last.now_slot)
    /\ LastBook[2].order_type = "Limit" /\ ~Expired(LastBook[2], last.now_slot)
    /\ last.result = Ok(0)

C3_ExpiredExcluded ==
    LastIsImpact =>
        \A i \in 1..Len(LastBook) :
            LET order == LastBook[i]
                s == StateAt(i)
            IN IF Expired(order, last.now_slot)
               THEN /\ last.result = SimOn(RemoveAt(LastBook, i))
                    /\ s.ctl = "next" => StepAt(order, s) = s
               ELSE (order.order_type = "Limit" /\ s.ctl = "next") =>
                        StepAt(order, s) # s

\* C3: an impact call leaves every order, the expired ones too, in the book.
C3_ExpiredStaysIndexed == [][last' # last => (bids' = bids /\ asks' = asks)]_vars

(* C3: expired orders are excluded from the totals of both simulators, an  *)
(* order with last_valid_slot = 0 or >= now_slot is not treated as expired, *)
(* and the call leaves the expired order in the book.                      *)
C3_ExpiredOrders == []C3_ExpiredExcluded /\ C3_ExpiredStaysIndexed

(* C3 witness: the first order is expired, the limit order behind it is    *)
(* not, and the call counts the second alone.                              *)
C3_Witness ==
    /\ LastIsImpact
    /\ Len(LastBook) = 2
    /\ Expired(LastBook[1], last.now_slot)
    /\ LastBook[2].order_type = "Limit" /\ ~Expired(LastBook[2], last.now_slot)
    /\ last.result.ok /\ last.result.val > 0
    /\ last.result = SimOn(<<LastBook[2]>>)

\* Whether the recorded call counts order when its walk reaches it in state s.
Counted(order, s) ==
    /\ ~Expired(order, last.now_slot)
    /\ order.order_type = "Global" =>
          (LastHasGlobal /\ OwnerBalance(order) >= NeededGlobalAtoms(order, s))

\* The quote atoms of n base atoms at a price, rounded down or up.
QuoteValue(price, n, round_up) ==
    (price * n + (IF round_up THEN PriceScale - 1 ELSE 0)) \div PriceScale

\* What a checked addition returns.
AddedTo(total, amount) == IF total + amount <= U64Max THEN Ok(total + amount) ELSE Err

(* C4: when the base atoms left of the cap are fewer than those of the     *)
(* counted order, impact_quote_atoms_with_slot adds the quote value of the *)
(* atoms left at the order's price and leaves the loop, so that this sum   *)
(* is the result (the call is an error when the sum is beyond u64); one    *)
(* ask of price 2.0 and size 100 with a cap of 50 gives 100 quote atoms.   *)
C4_PartialFillHalts ==
    last.op = "impact_quote" =>
        /\ \A i \in 1..Len(LastBook) :
              LET order == LastBook[i]
                  s == StateAt(i)
                  quote == QuoteValue(order.price, s.remaining, last.is_bid)
              IN (/\ s.ctl = "next"
                  /\ Counted(order, s)
                  /\ s.remaining < order.num_base_atoms
                  /\ quote <= U64Max) =>
                    /\ IF s.total + quote <= U64Max
                       THEN /\ StepAt(order, s).total = s.total + quote
                            /\ StepAt(order, s).ctl = "break"
                       ELSE StepAt(order, s).ctl = "err"
                    /\ last.result = AddedTo(s.total, quote)
        /\ (/\ last.is_bid /\ last.limit = 50
            /\ Len(asks) = 1
            /\ asks[1].price = 2 * PriceScale /\ asks[1].num_base_atoms = 100
            /\ asks[1].last_valid_slot = 0 /\ asks[1].order_type = "Limit") =>
                last.result = Ok(100)

(* C4 witness: a taker bid with a cap of 50 on an ask of price 2.0 and     *)
(* size 100 with a live limit order behind it; the result is 100.          *)
C4_Witness ==
    /\ last.op = "impact_quote" /\ last.is_bid /\ last.limit = 50
    /\ Len(asks) = 2
    /\ asks[1].price = 2 * PriceScale /\ asks[1].num_base_atoms = 100
    /\ asks[1].last_valid_slot = 0 /\ asks[1].order_type = "Limit"
    /\ asks[2].order_type = "Limit" /\ ~Expired(asks[2], last.now_slot)
    /\ last.result = Ok(100)

\* The orders of a book that are not expired at the recorded call's slot.
RECURSIVE LiveOrders(_)
LiveOrders(book) ==
    IF book = <<>> THEN <<>>
    ELSE (IF Expired(Head(book), last.now_slot) THEN <<>> ELSE <<Head(book)>>)
            \o LiveOrders(Tail(book))

\* The quote atoms of an order matched whole by the recorded call's taker.
FullQuote(order) == QuoteValue(order.price, order.num_base_atoms, ~last.is_bid)

\* The liquidity of a book on the axis of the recorded call's cap.
RECURSIVE Liquidity(_)
Liquidity(book) ==
    IF book = <<>> THEN 0
    ELSE (IF last.op = "impact_quote" THEN Head(book).num_base_atoms
          ELSE FullQuote(Head(book)))
            + Liquidity(Tail(book))

(* The orders the recorded call can match when each is matched whole: those *)
(* ahead of the first Global order if the call has no global account, and   *)
(* without the Global orders whose owner cannot back the whole order.       *)
RECURSIVE Matchable(_)
Matchable(book) ==
    IF book = <<>> THEN <<>>
    ELSE LET order == Head(book)
         IN IF order.order_type # "Global"
            THEN <<order>> \o Matchable(Tail(book))
            ELSE IF ~LastHasGlobal
            THEN <<>>
            ELSE IF OwnerBalance(order)
                       >= (IF last.is_bid THEN order.num_base_atoms ELSE FullQuote(order))
            THEN <<order>> \o Matchable(Tail(book))
            ELSE Matchable(Tail(book))

\* What the recorded call obtains from a book with every order matched whole.
RECURSIVE Obtainable(_)
Obtainable(book) ==
    IF book = <<>> THEN 0
    ELSE (IF last.op = "impact_quote" THEN FullQuote(Head(book))
          ELSE Head(book).num_base_atoms)
            + Obtainable(Tail(book))

(* C5: when the cap exceeds the liquidity of the walked side, either       *)
(* simulator returns what the whole side yields, every matchable order     *)
(* matched whole, as an ordinary Ok value (an error only when that sum is  *)
(* beyond u64); one ask of price 2.0 and size 100 with a cap of 200 gives  *)
(* 200 quote atoms.                                                        *)
C5_ThinBookUnderfill ==
    LastIsImpact =>
        /\ last.limit > Liquidity(LiveOrders(LastBook)) =>
              last.result = AddedTo(0, Obtainable(Matchable(LiveOrders(LastBook))))
        /\ (/\ last.op = "impact_quote" /\ last.is_bid /\ last.limit = 200
            /\ Len(asks) = 1
            /\ asks[1].price = 2 * PriceScale /\ asks[1].num_base_atoms = 100
            /\ asks[1].last_valid_slot = 0 /\ asks[1].order_type = "Limit") =>
                last.result = Ok(200)

(* C5 witness: a taker bid with a cap of 200 base atoms on a book whose    *)
(* only ask has price 2.0 and size 100; the result is Ok(200).             *)
C5_Witness ==
    /\ last.op = "impact_quote" /\ last.is_bid /\ last.limit = 200
    /\ Len(asks) = 1
    /\ asks[1].price = 2 * PriceScale /\ asks[1].num_base_atoms = 100
    /\ asks[1].last_valid_slot = 0 /\ asks[1].order_type = "Limit"
    /\ last.limit > Liquidity(LiveOrders(LastBook))
    /\ last.result = Ok(200)

\* C6: the result a call returned is the result of the same call made again.
C6_SameResultAgain == LastIsImpact => last.result = SimOn(LastBook)

\* C6: a call changes neither the market nor the global accounts.
C6_CallChangesNothing ==
    [][last' # last => UNCHANGED <<bids, asks, order_sequence_number, globals>>]_vars

-----------------------------------------------------------------------------
(* state/resting_order.rs: constructing resting orders and asking whether *)
(* they are expired.                                                       *)

InitOrder ==
    /\ bids = <<>>
    /\ asks = <<>>
    /\ order_sequence_number = 0
    /\ globals = <<FundedGlobal, FundedGlobal>>
    /\ market = NoBlocks
    /\ account = LoadedAccount
    /\ last = NoCall

\* RestingOrder::new, its arguments and what it returned (or that it aborted).
NewOrder(trader_index, num_base_atoms, price, last_valid_slot, is_bid, order_type) ==
    /\ last' = [op |-> "new", order_type |-> order_type,
                last_valid_slot |-> last_valid_slot,
                result |-> RestingOrder_new(trader_index, num_base_atoms, price,
                                            order_sequence_number, last_valid_slot,
                                            is_bid, order_type)]
    /\ UNCHANGED <<bids, asks, order_sequence_number, globals, market, account>>

\* is_expired on the order that was constructed last.
IsExpired(current_slot) ==
    /\ last.op = "new"
    /\ last.result.ok
    /\ last' = [op |-> "is_expired", order |-> last.result.order,
                current_slot |-> current_slot,
                result |-> is_expired(last.result.order, current_slot)]
    /\ UNCHANGED <<bids, asks, order_sequence_number, globals, market, account>>

NextOrder ==
    \/ \E t \in DOMAIN claimed_seats, n \in BookSizes, p \in BookPrices,
          l \in 0..MaxSlot, b \in BOOLEAN, o \in OrderTypes :
            NewOrder(t, n, p, l, b, o)
    \/ \E slot \in 0..(MaxSlot + 1) : IsExpired(slot)

SpecOrder == InitOrder /\ [][NextOrder]_vars

(* C7: RestingOrder::new aborts exactly for the calls whose order type is  *)
(* Reverse or ReverseTight and whose last_valid_slot is not zero, and      *)
(* returns the order as asked for every other call; so each constructed    *)
(* reversible order has last_valid_slot 0 and is_expired is false for it   *)
(* at every slot.                                                          *)
C7_ReversibleOrdersNeverExpire ==
    /\ last.op = "new" =>
        /\ last.result.ok <=>
              ~(last.order_type \in {"Reverse", "ReverseTight"} /\ last.last_valid_slot # 0)
        /\ last.result.ok =>
              /\ last.result.order.order_type = last.order_type
              /\ last.result.order.last_valid_slot = last.last_valid_slot
        /\ (last.result.ok /\ last.order_type \in {"Reverse", "ReverseTight"}) =>
              last.result.order.last_valid_slot = 0
    /\ (last.op = "is_expired" /\ last.order.order_type \in {"Reverse", "ReverseTight"}) =>
        /\ last.order.last_valid_slot = 0
        /\ last.result = FALSE

\* A ReverseTight order with a last valid slot was asked for, and construction aborted.
C7_Witness ==
    /\ last.op = "new"
    /\ last.order_type = "ReverseTight"
    /\ last.last_valid_slot = MaxSlot
    /\ ~last.result.ok

-----------------------------------------------------------------------------
(* state/global.rs: the global account as traders are added to it, deposit *)
(* into it and are evicted from it, and the balance lookup.                *)

\* The amounts a trader deposits at once.
DepositAmounts == {100}

\* GlobalFixed::new_empty: no trader, no deposit.
EmptyGlobal ==
    [traders |-> [t \in {} |-> 0],
     deposits |-> [i \in {} |-> 0],
     borrow |-> 0]

\* A global account with a trader and its empty deposit node at a free index.
global_add_trader(global, trader, free_index) ==
    [global EXCEPT
        !.traders = [t \in DOMAIN global.traders \cup {trader} |->
                        IF t = trader THEN free_index ELSE global.traders[t]],
        !.deposits = [i \in DOMAIN global.deposits \cup {free_index} |->
                        IF i = free_index
                        THEN [trader |-> trader, balance_atoms |-> 0]
                        ELSE global.deposits[i]]]

\* A global account after a deposit of a registered trader.
global_deposit_global(global, trader, num_atoms) ==
    [global EXCEPT !.deposits[global.traders[trader]].balance_atoms = @ + num_atoms]

\* A global account without a trader and without its deposit node.
global_evict(global, trader) ==
    [global EXCEPT
        !.traders = [t \in DOMAIN global.traders \ {trader} |-> global.traders[t]],
        !.deposits = [i \in DOMAIN global.deposits \ {global.traders[trader]} |->
                        global.deposits[i]]]

InitGlobal ==
    /\ bids = <<>>
    /\ asks = <<>>
    /\ order_sequence_number = 0
    /\ globals = <<EmptyGlobal, EmptyGlobal>>
    /\ market = NoBlocks
    /\ account = LoadedAccount
    /\ last = NoCall

AddTrader(g, trader) ==
    /\ trader \notin DOMAIN globals[g].traders
    /\ \E free_index \in (1..MaxDataIndex) \ DOMAIN globals[g].deposits :
          globals' = [globals EXCEPT ![g] = global_add_trader(@, trader, free_index)]
    /\ last' = NoCall
    /\ UNCHANGED <<bids, asks, order_sequence_number, market, account>>

DepositGlobal(g, trader, num_atoms) ==
    /\ trader \in DOMAIN globals[g].traders
    /\ checked_add(get_balance_atoms(globals[g], trader), num_atoms).ok
    /\ globals' = [globals EXCEPT ![g] = global_deposit_global(@, trader, num_atoms)]
    /\ last' = NoCall
    /\ UNCHANGED <<bids, asks, order_sequence_number, market, account>>

EvictTrader(g, trader) ==
    /\ trader \in DOMAIN globals[g].traders
    /\ globals' = [globals EXCEPT ![g] = global_evict(@, trader)]
    /\ last' = NoCall
    /\ UNCHANGED <<bids, asks, order_sequence_number, market, account>>

GetBalanceAtoms(g, trader) ==
    /\ last' = [op |-> "get_balance_atoms", global |-> g, trader |-> trader,
                result |-> get_balance_atoms(globals[g], trader)]
    /\ UNCHANGED <<bids, asks, order_sequence_number, globals, market, account>>

NextGlobal ==
    \/ \E g \in DOMAIN globals, t \in TraderKeys : AddTrader(g, t)
    \/ \E g \in DOMAIN globals, t \in TraderKeys, n \in DepositAmounts : DepositGlobal(g, t, n)
    \/ \E g \in DOMAIN globals, t \in TraderKeys : EvictTrader(g, t)
    \/ \E g \in DOMAIN globals, t \in TraderKeys : GetBalanceAtoms(g, t)

SpecGlobal == InitGlobal /\ [][NextGlobal]_vars

\* The deposit nodes of a global account that name a trader.
DepositNodesOf(global, trader) ==
    {i \in DOMAIN global.deposits : global.deposits[i].trader = trader}

(* C8: get_balance_atoms always returns an amount: for a trader that is in *)
(* the trader tree, the balance of the one deposit node that names it,     *)
(* which is the node its entry links to; for a trader that is not in the   *)
(* trader tree, never added or evicted, zero.                              *)
C8_BalanceOrZero ==
    last.op = "get_balance_atoms" =>
        LET global == globals[last.global]
            nodes == DepositNodesOf(global, last.trader)
        IN /\ last.result \in 0..U64Max
           /\ last.trader \in DOMAIN global.traders =>
                 /\ nodes = {global.traders[last.trader]}
                 /\ \A i \in nodes : last.result = global.deposits[i].balance_atoms
           /\ last.trader \notin DOMAIN global.traders =>
                 /\ nodes = {}
                 /\ last.result = 0

(* The balance of a trader that is not in the trader tree was asked for    *)
(* while the other trader holds a deposit, and zero came back.             *)
C8_Witness ==
    /\ last.op = "get_balance_atoms"
    /\ last.trader \notin DOMAIN globals[last.global].traders
    /\ \E i \in DOMAIN globals[last.global].deposits :
          globals[last.global].deposits[i].balance_atoms > 0
    /\ last.result = 0

-----------------------------------------------------------------------------
(* utils.rs: can_back_order while the data of the global accounts is       *)
(* borrowed elsewhere in the call.                                         *)

\* The walked sides: a Global order of trader A at the best price, alone or
\* before a limit order.
BorrowBooks(is_bid) ==
    LET best == IF is_bid THEN 4 ELSE 3
        next == IF is_bid THEN 3 ELSE 4
    IN UNION {{ <<RestingOrder_new(1, n, best, 0, 0, is_bid, "Global").order>>,
                <<RestingOrder_new(1, n, best, 0, 0, is_bid, "Global").order,
                  RestingOrder_new(2, 100, next, 1, 0, is_bid, "Limit").order>> } :
              n \in BookSizes}

InitBorrow ==
    /\ \E walked_is_bid \in BOOLEAN :
        \E walked \in BorrowBooks(walked_is_bid) :
            /\ bids = IF walked_is_bid THEN walked ELSE <<>>
            /\ asks = IF walked_is_bid THEN <<>> ELSE walked
            /\ order_sequence_number = Len(walked)
    /\ globals = <<FundedGlobal, FundedGlobal>>
    /\ market = NoBlocks
    /\ account = LoadedAccount
    /\ last = NoCall

\* Another part of the call takes a shared borrow of the data of a global account.
BorrowData(g) ==
    /\ last = NoCall
    /\ try_borrow_data(globals[g])
    /\ globals[g].borrow < MaxReaders
    /\ globals' = [globals EXCEPT ![g].borrow = @ + 1]
    /\ UNCHANGED <<bids, asks, order_sequence_number, last, market, account>>

\* Another part of the call takes a mutable borrow of the data of a global account.
BorrowMutData(g) ==
    /\ last = NoCall
    /\ try_borrow_mut_data(globals[g])
    /\ globals' = [globals EXCEPT ![g].borrow = -1]
    /\ UNCHANGED <<bids, asks, order_sequence_number, last, market, account>>

\* A borrow of the data of a global account is dropped.
DropBorrow(g) ==
    /\ last = NoCall
    /\ globals[g].borrow # 0
    /\ globals' = [globals EXCEPT ![g].borrow = IF @ = -1 THEN 0 ELSE @ - 1]
    /\ UNCHANGED <<bids, asks, order_sequence_number, last, market, account>>

CanBackOrder(g, has_global, resting_order_trader, desired_global_atoms) ==
    /\ last = NoCall
    /\ last' = [op |-> "can_back_order", global |-> g, has_global |-> has_global,
                trader |-> resting_order_trader, desired |-> desired_global_atoms,
                result |-> can_back_order(IF has_global THEN Some(globals[g]) ELSE None,
                                          resting_order_trader, desired_global_atoms)]
    /\ UNCHANGED <<bids, asks, order_sequence_number, globals, market, account>>

NextBorrow ==
    \/ \E g \in DOMAIN globals : BorrowData(g)
    \/ \E g \in DOMAIN globals : BorrowMutData(g)
    \/ \E g \in DOMAIN globals : DropBorrow(g)
    \/ \E g \in DOMAIN globals, h \in BOOLEAN, t \in TraderKeys, n \in Limits :
            CanBackOrder(g, h, t, n)
    \/ \E b \in BOOLEAN, n \in Limits, g1 \in BOOLEAN, g2 \in BOOLEAN, s \in NowSlots :
            ImpactQuote(b, n, g1, g2, s)
    \/ \E b \in BOOLEAN, n \in Limits, g1 \in BOOLEAN, g2 \in BOOLEAN, s \in NowSlots :
            ImpactBase(b, n, g1, g2, s)

SpecBorrow == InitBorrow /\ [][NextBorrow]_vars

\* The global account that backs the side the recorded call walked.
LastGlobal == IF last.is_bid THEN globals[1] ELSE globals[2]

\* A book without its Global orders.
RECURSIVE WithoutGlobals(_)
WithoutGlobals(book) ==
    IF book = <<>> THEN <<>>
    ELSE IF Head(book).order_type = "Global"
         THEN WithoutGlobals(Tail(book))
         ELSE <<Head(book)>> \o WithoutGlobals(Tail(book))

(* C9 as stated: with enough atoms on deposit, can_back_order refuses      *)
(* exactly when the data of the global account is borrowed mutably.        *)
C9_RefusesOnlyMutablyBorrowed ==
    (/\ last.op = "can_back_order"
     /\ last.has_global
     /\ last.desired <= BalanceOf(globals[last.global], last.trader)) =>
        (last.result = FALSE <=> globals[last.global].borrow = -1)

(* C9: can_back_order takes a mutable borrow of the data of the global     *)
(* account: with enough atoms on deposit it refuses exactly when the data  *)
(* is already borrowed, shared or mutably; it then returns false, and the  *)
(* walk skips each Global order and returns what it returns on the book    *)
(* without them, not an error of its own.                                  *)
C9_BorrowedGlobalCannotBack ==
    /\ (last.op = "can_back_order" /\ last.has_global) =>
        /\ last.result \in BOOLEAN
        /\ last.result = (/\ globals[last.global].borrow = 0
                          /\ last.desired <= BalanceOf(globals[last.global], last.trader))
        /\ last.desired <= BalanceOf(globals[last.global], last.trader) =>
              (last.result = FALSE <=> globals[last.global].borrow # 0)
    /\ (LastIsImpact /\ LastHasGlobal /\ LastGlobal.borrow # 0) =>
        /\ last.result = SimOn(WithoutGlobals(LastBook))
        /\ last.result.ok
        /\ \A i \in 1..Len(LastBook) :
              (LastBook[i].order_type = "Global" /\ StateAt(i).ctl = "next") =>
                  StepAt(LastBook[i], StateAt(i)) = StateAt(i)

(* The data of the global account was under a shared borrow when the       *)
(* backing of an amount the trader holds was asked for, and was refused.   *)
C9_Witness ==
    /\ last.op = "can_back_order"
    /\ last.has_global
    /\ globals[last.global].borrow > 0
    /\ last.desired <= BalanceOf(globals[last.global], last.trader)
    /\ last.result = FALSE

-----------------------------------------------------------------------------
(* The book as orders are placed on it and removed from it. *)

InsertAt(book, k, order) ==
    SubSeq(book, 1, k - 1) \o <<order>> \o SubSeq(book, k, Len(book))

(* Where the tree puts a new order in the iteration of its side: after the *)
(* orders that are greater, before those that are less, anywhere among its *)
(* equals.                                                                 *)
InsertPositions(book, order) ==
    {k \in 1..(Len(book) + 1) :
        /\ \A j \in 1..(k - 1) : cmp(book[j], order) # "Less"
        /\ \A j \in k..Len(book) : cmp(book[j], order) # "Greater"}

InitBook ==
    /\ bids = <<>>
    /\ asks = <<>>
    /\ order_sequence_number = 0
    /\ globals = <<FundedGlobal, FundedGlobal>>
    /\ market = NoBlocks
    /\ account = LoadedAccount
    /\ last = NoCall

PlaceOrder(is_bid, num_base_atoms, price) ==
    LET book == IF is_bid THEN bids ELSE asks
        made == RestingOrder_new(1, num_base_atoms, price, order_sequence_number,
                                 NO_EXPIRATION_LAST_VALID_SLOT, is_bid, "Limit")
    IN /\ order_sequence_number < MaxSeq
       /\ Len(book) < MaxOrders
       /\ made.ok
       /\ \E k \in InsertPositions(book, made.order) :
             /\ bids' = IF is_bid THEN InsertAt(bids, k, made.order) ELSE bids
             /\ asks' = IF is_bid THEN asks ELSE InsertAt(asks, k, made.order)
       /\ order_sequence_number' = order_sequence_number + 1
       /\ last' = NoCall
       /\ UNCHANGED <<globals, market, account>>

RemoveOrder(is_bid, k) ==
    /\ k \in 1..Len(IF is_bid THEN bids ELSE asks)
    /\ bids' = IF is_bid THEN RemoveAt(bids, k) ELSE bids
    /\ asks' = IF is_bid THEN asks ELSE RemoveAt(asks, k)
    /\ last' = NoCall
    /\ UNCHANGED <<order_sequence_number, globals, market, account>>

\* The comparison of two resting orders of one side.
Compare(is_bid, i, j) ==
    LET book == IF is_bid THEN bids ELSE asks
    IN /\ i \in 1..Len(book)
       /\ j \in 1..Len(book)
       /\ last' = [op |-> "cmp", self |-> book[i], other |-> book[j],
                   result |-> cmp(book[i], book[j])]
       /\ UNCHANGED <<bids, asks, order_sequence_number, globals, market, account>>

NextBook ==
    \/ \E b \in BOOLEAN, n \in BookSizes, p \in BookPrices : PlaceOrder(b, n, p)
    \/ \E b \in BOOLEAN, k \in 1..MaxOrders : RemoveOrder(b, k)
    \/ \E b \in BOOLEAN, i \in 1..MaxOrders, j \in 1..MaxOrders : Compare(b, i, j)

SpecBook == InitBook /\ [][NextBook]_vars

(* C10: whatever orders were placed and removed, the bids iterate in       *)
(* non-increasing price and the asks in non-decreasing price; and the      *)
(* comparison of two orders of one side is Greater for the higher-priced   *)
(* bid and for the lower-priced ask, Less the other way round, and Equal   *)
(* at equal prices whatever the sizes and sequence numbers.                *)
C10_PriceMonotonic ==
    /\ \A i \in 1..Len(bids) : \A j \in i..Len(bids) : bids[i].price >= bids[j].price
    /\ \A i \in 1..Len(asks) : \A j \in i..Len(asks) : asks[i].price <= asks[j].price
    /\ last.op = "cmp" =>
        /\ last.self.price = last.other.price => last.result = "Equal"
        /\ last.self.is_bid =>
              /\ last.self.price > last.other.price => last.result = "Greater"
              /\ last.self.price < last.other.price => last.result = "Less"
        /\ ~last.self.is_bid =>
              /\ last.self.price < last.other.price => last.result = "Greater"
              /\ last.self.price > last.other.price => last.result = "Less"

(* The ask side holds a cheaper order placed after a dearer one, it        *)
(* iterates the cheaper one first, and the comparison ranked it above.     *)
C10_Witness ==
    /\ Len(asks) >= 2
    /\ asks[1].price < asks[2].price
    /\ asks[1].sequence_number > asks[2].sequence_number
    /\ last.op = "cmp"
    /\ last.self = asks[1]
    /\ last.other = asks[2]
    /\ last.result = "Greater"

-----------------------------------------------------------------------------
(* The impact simulators on books whose prices and sizes take the sums and *)
(* the conversions to the ends of u64.                                     *)

ArithPrices == {1, 3, 6}
ArithSizes == {1, 100, 200}

\* The limit orders of one side that the model places in such a book.
ArithOrders(is_bid) ==
    {RestingOrder_new(1, n, p, 0, NO_EXPIRATION_LAST_VALID_SLOT, is_bid, "Limit").order :
        n \in ArithSizes, p \in ArithPrices}

\* The books of one side, of at most n of these orders.
ArithBooks(is_bid, n) ==
    {[i \in 1..Len(f) |-> [f[i] EXCEPT !.sequence_number = i - 1]] :
        f \in {g \in UNION {[1..k -> ArithOrders(is_bid)] : k \in 0..n} :
                  IsPriorityOrdered(g)}}

InitArith ==
    /\ \E walked_is_bid \in BOOLEAN :
        \E walked \in ArithBooks(walked_is_bid, MaxOrders) :
            /\ bids = IF walked_is_bid THEN walked ELSE <<>>
            /\ asks = IF walked_is_bid THEN <<>> ELSE walked
            /\ order_sequence_number = Len(walked)
    /\ globals = <<FundedGlobal, FundedGlobal>>
    /\ market = NoBlocks
    /\ account = LoadedAccount
    /\ last = NoCall

NextArith ==
    \/ \E b \in BOOLEAN, n \in Limits, g1 \in BOOLEAN, g2 \in BOOLEAN, s \in NowSlots :
            ImpactQuote(b, n, g1, g2, s)
    \/ \E b \in BOOLEAN, n \in Limits, g1 \in BOOLEAN, g2 \in BOOLEAN, s \in NowSlots :
            ImpactBase(b, n, g1, g2, s)

SpecArith == InitArith /\ [][NextArith]_vars

\* The base atoms that a number of quote atoms buys at a price, rounded down or up.
BaseValue(price, quote, round_up) ==
    IF price = 0 THEN 0
    ELSE (PriceScale * quote + (IF round_up THEN price - 1 ELSE 0)) \div price

(* The quantities of the match of order in state s, computed in the        *)
(* integers: the base atoms the cap allows, the base and quote atoms       *)
(* matched, the new total and what is left of the cap.                     *)
ExactMatch(order, s) ==
    LET cap_base == IF last.op = "impact_quote"
                    THEN s.remaining
                    ELSE BaseValue(order.price, s.remaining, ~last.is_bid)
        fully == cap_base >= order.num_base_atoms
        base == Min(order.num_base_atoms, cap_base)
        quote == QuoteValue(order.price, base, last.is_bid # fully)
    IN [cap_base |-> cap_base, fully |-> fully, base |-> base, quote |-> quote,
        total |-> s.total + (IF last.op = "impact_quote" THEN quote ELSE base),
        remaining |-> s.remaining - (IF last.op = "impact_quote" THEN base ELSE quote)]

\* Whether one of these quantities, as far as the match computes them, leaves u64.
LeavesU64(m) ==
    \/ m.cap_base > U64Max
    \/ m.quote > U64Max
    \/ m.total > U64Max
    \/ m.fully /\ m.remaining < 0

(* C11: every iteration that matches an order either computes its sums,    *)
(* differences and conversions exactly as in the integers, or, when one of *)
(* them leaves u64, ends the call with an error; an error of an iteration  *)
(* is the result of the whole call, and a total that is returned is the    *)
(* exact one.                                                              *)
C11_CheckedArithmetic ==
    LastIsImpact =>
        /\ \A i \in 1..Len(LastBook) :
              LET order == LastBook[i]
                  s == StateAt(i)
                  t == StepAt(order, s)
                  m == ExactMatch(order, s)
              IN (s.ctl = "next" /\ Counted(order, s)) =>
                    /\ t.ctl = "err" <=> LeavesU64(m)
                    /\ t.ctl # "err" =>
                          /\ t.total = m.total
                          /\ t.ctl = "next" => t.remaining = m.remaining
                    /\ t.ctl = "err" => last.result = Err
        /\ last.result.ok =>
              /\ last.result.val \in 0..U64Max
              /\ \A i \in 1..(Len(LastBook) + 1) : StateAt(i).ctl # "err"

(* Two asks of 100 base atoms at 1.5 were walked with a cap of 200: the    *)
(* second sum leaves u64 and the call returned an error.                   *)
C11_Witness ==
    /\ last.op = "impact_quote"
    /\ last.is_bid
    /\ last.limit = 200
    /\ Len(asks) >= 2
    /\ asks[1].price = 3 /\ asks[1].num_base_atoms = 100
    /\ asks[2].price = 3 /\ asks[2].num_base_atoms = 100
    /\ StateAt(2).ctl = "next"
    /\ StateAt(2).total + 150 > U64Max
    /\ last.result = Err

-----------------------------------------------------------------------------
(* state/resting_order.rs: the equality of two resting orders of one side. *)

EqPrices == {0, 1, 2, 4, U128Max - 1, U128Max}
EqOrderTypes == {"Limit", "PostOnly", "Reverse", "ReverseTight"}

\* The resting orders of one side that are compared.
EqOrders(is_bid) ==
    {RestingOrder_new(t, n, p, 0, NO_EXPIRATION_LAST_VALID_SLOT, is_bid, o).order :
        t \in DOMAIN claimed_seats, n \in BookSizes, p \in EqPrices, o \in EqOrderTypes}

\* A side of two of these orders in its order of iteration.
EqBooks(is_bid) ==
    {[i \in 1..2 |-> [f[i] EXCEPT !.sequence_number = i - 1]] :
        f \in {g \in [1..2 -> EqOrders(is_bid)] : IsPriorityOrdered(g)}}

InitEq ==
    /\ \E is_bid \in BOOLEAN :
        \E book \in EqBooks(is_bid) :
            /\ bids = IF is_bid THEN book ELSE <<>>
            /\ asks = IF is_bid THEN <<>> ELSE book
            /\ order_sequence_number = Len(book)
    /\ globals = <<FundedGlobal, FundedGlobal>>
    /\ market = NoBlocks
    /\ account = LoadedAccount
    /\ last = NoCall

\* self == other for two orders of one side, in a build with or without overflow checks.
Eq(is_bid, i, j, overflow_checks) ==
    LET book == IF is_bid THEN bids ELSE asks
    IN /\ last = NoCall
       /\ i \in 1..Len(book)
       /\ j \in 1..Len(book)
       /\ last' = [op |-> "eq", self |-> book[i], other |-> book[j],
                   overflow_checks |-> overflow_checks,
                   result |-> eq(book[i], book[j], overflow_checks)]
       /\ UNCHANGED <<bids, asks, order_sequence_number, globals, market, account>>

NextEq ==
    \E b \in BOOLEAN, i \in 1..2, j \in 1..2, c \in BOOLEAN : Eq(b, i, j, c)

SpecEq == InitEq /\ [][NextEq]_vars

\* Whether two orders are of one trader and one order type.
SameTraderAndType(a, b) ==
    a.trader_index = b.trader_index /\ a.order_type = b.order_type

\* Whether two raw prices differ by exactly one.
Adjacent(p, q) == p = q + 1 \/ q = p + 1

-----------------------------------------------------------------------------
(* state/resting_order.rs: the price at which a reversible order is put    *)
(* back on the other side.                                                 *)

ReversePrices == {0, 1, 7, 20, 21}
\* Values of the 16-bit reverse_spread: none, the least, a half of 100,000, the greatest.
ReverseSpreads == {0, 1, 50000, 65535}

\* A book whose one side holds one resting order.
InitReverse ==
    /\ \E is_bid \in BOOLEAN, p \in ReversePrices, o \in OrderTypes :
        LET made == RestingOrder_new(1, 100, p, 0, NO_EXPIRATION_LAST_VALID_SLOT, is_bid, o)
        IN /\ bids = IF is_bid THEN <<made.order>> ELSE <<>>
           /\ asks = IF is_bid THEN <<>> ELSE <<made.order>>
    /\ order_sequence_number = 1
    /\ globals = <<FundedGlobal, FundedGlobal>>
    /\ market = NoBlocks
    /\ account = LoadedAccount
    /\ last = NoCall

SetReverseSpread(is_bid, spread) ==
    /\ Len(IF is_bid THEN bids ELSE asks) = 1
    /\ bids' = IF is_bid THEN <<set_reverse_spread(bids[1], spread)>> ELSE bids
    /\ asks' = IF is_bid THEN asks ELSE <<set_reverse_spread(asks[1], spread)>>
    /\ last' = NoCall
    /\ UNCHANGED <<order_sequence_number, globals, market, account>>

ReversePrice(is_bid) ==
    LET book == IF is_bid THEN bids ELSE asks
    IN /\ Len(book) = 1
       /\ last' = [op |-> "reverse_price", order |-> book[1],
                   result |-> reverse_price(book[1])]
       /\ UNCHANGED <<bids, asks, order_sequence_number, globals, market, account>>

NextReverse ==
    \/ \E b \in BOOLEAN, spread \in ReverseSpreads : SetReverseSpread(b, spread)
    \/ \E b \in BOOLEAN : ReversePrice(b)

SpecReverse == InitReverse /\ [][NextReverse]_vars

\* The denominator of the spread of a reversible order.
SpreadDenominator(order) == IF order.order_type = "Reverse" THEN 100000 ELSE 100000000

\* Whether r is the quotient of a by b (b positive), rounded down, or rounded up.
IsFloorOf(r, a, b) == r * b <= a /\ a < (r + 1) * b
IsCeilingOf(r, a, b) == (r - 1) * b < a /\ a <= r * b

(* C13 as stated: the price of a reversible order, bid or ask, comes back  *)
(* scaled by (1 - spread / denominator), rounded one way or the other.     *)
C13_ScaledDownOnBothSides ==
    (/\ last.op = "reverse_price"
     /\ last.order.order_type \in {"Reverse", "ReverseTight"}
     /\ last.result.ok) =>
        LET den == SpreadDenominator(last.order)
            scaled == last.order.price * (den - last.order.reverse_spread)
        IN \/ IsFloorOf(last.result.val, scaled, den)
           \/ IsCeilingOf(last.result.val, scaled, den)

(* C13: reverse_price returns the price itself for an order that is not    *)
(* reversible. For a reversible ask it returns the price times             *)
(* (1 - spread / denominator), rounded up; for a reversible bid the price  *)
(* divided by (1 - spread / denominator), rounded down; the denominator is *)
(* 100,000 for Reverse and 100,000,000 for ReverseTight, and the call is   *)
(* an error exactly when the product of the conversion leaves u128.        *)
C13_ReversePrice ==
    last.op = "reverse_price" =>
        LET order == last.order
            den == SpreadDenominator(order)
            rest == den - order.reverse_spread
        IN /\ ~(order.order_type \in {"Reverse", "ReverseTight"}) =>
                 last.result = Ok(order.price)
           /\ (order.order_type \in {"Reverse", "ReverseTight"} /\ ~order.is_bid) =>
                 /\ last.result.ok <=> order.price * rest <= U128Max
                 /\ last.result.ok => IsCeilingOf(last.result.val, order.price * rest, den)
           /\ (order.order_type \in {"Reverse", "ReverseTight"} /\ order.is_bid) =>
                 /\ rest > 0
                 /\ last.result.ok <=> order.price * den <= U128Max
                 /\ last.result.ok => IsFloorOf(last.result.val, order.price * den, rest)

(* The reverse price of a Reverse bid at 20 with a spread of 50,000 (a     *)
(* half) was asked for, and 40 came back.                                  *)
C13_Witness ==
    /\ last.op = "reverse_price"
    /\ last.order.order_type = "Reverse"
    /\ last.order.is_bid
    /\ last.order.price = 20
    /\ last.order.reverse_spread = 50000
    /\ last.result = Ok(40)

-----------------------------------------------------------------------------
(* state/market.rs: the free list of the market's blocks and the two       *)
(* capacity checks. A block is a free-list node (free, with the index of   *)
(* the next free block or NIL) or is in use by an order or a seat.         *)

UsedBlock == [free |-> FALSE, next_index |-> NIL]

\* FreeListNode::has_next
has_next(node) == node.next_index # NIL

\* has_two_free_blocks looking at the head of the free list only.
has_two_free_blocks_head_only(m) == m.free_list_head_index # NIL

has_free_block(m) ==
    LET free_list_head_index == m.free_list_head_index
    IN free_list_head_index # NIL

has_two_free_blocks(m) ==
    LET free_list_head_index == m.free_list_head_index
    IN IF free_list_head_index = NIL
       THEN FALSE
       ELSE has_next(m.dynamic[free_list_head_index])

\* allocate with a free block at hand: the head of the free list is taken off it.
free_list_remove(m) ==
    LET head == m.free_list_head_index
    IN [index |-> head,
        market |-> [m EXCEPT !.free_list_head_index = m.dynamic[head].next_index,
                             !.dynamic = [i \in DOMAIN m.dynamic |->
                                             IF i = head THEN UsedBlock ELSE m.dynamic[i]]]]

\* allocate without one: the next block past those allocated so far.
bump_allocate(m) ==
    LET index == m.num_bytes_allocated
    IN [index |-> index,
        market |-> [m EXCEPT !.num_bytes_allocated = index + 1,
                             !.dynamic = [i \in 0..index |->
                                             IF i = index THEN UsedBlock ELSE m.dynamic[i]]]]

\* free: the block becomes the head of the free list.
free_list_add(m, index) ==
    [m EXCEPT !.free_list_head_index = index,
              !.dynamic = [i \in DOMAIN m.dynamic |->
                              IF i = index
                              THEN [free |-> TRUE, next_index |-> m.free_list_head_index]
                              ELSE m.dynamic[i]]]

InitAlloc ==
    /\ bids = <<>>
    /\ asks = <<>>
    /\ order_sequence_number = 0
    /\ globals = <<FundedGlobal, FundedGlobal>>
    /\ market = NoBlocks
    /\ account = LoadedAccount
    /\ last = NoCall

\* allocate: an index, or a capacity error when the data holds no further block.
Allocate ==
    /\ IF has_free_block(market)
       THEN /\ market' = free_list_remove(market).market
            /\ last' = [op |-> "allocate", result |-> Ok(free_list_remove(market).index)]
       ELSE IF market.num_bytes_allocated < MaxBlocks
       THEN /\ market' = bump_allocate(market).market
            /\ last' = [op |-> "allocate", result |-> Ok(bump_allocate(market).index)]
       ELSE /\ market' = market
            /\ last' = [op |-> "allocate", result |-> Err]
    /\ UNCHANGED <<bids, asks, order_sequence_number, globals, account>>

Free(index) ==
    /\ index \in DOMAIN market.dynamic
    /\ ~market.dynamic[index].free
    /\ market' = free_list_add(market, index)
    /\ last' = [op |-> "free"]
    /\ UNCHANGED <<bids, asks, order_sequence_number, globals, account>>

HasFreeBlock ==
    /\ last' = [op |-> "has_free_block", result |-> has_free_block(market)]
    /\ UNCHANGED <<bids, asks, order_sequence_number, globals, market, account>>

HasTwoFreeBlocks ==
    /\ last' = [op |-> "has_two_free_blocks", result |-> has_two_free_blocks(market)]
    /\ UNCHANGED <<bids, asks, order_sequence_number, globals, market, account>>

NextAlloc ==
    \/ Allocate
    \/ \E index \in 0..(MaxBlocks - 1) : Free(index)
    \/ HasFreeBlock
    \/ HasTwoFreeBlocks

SpecAlloc == InitAlloc /\ [][NextAlloc]_vars

\* The blocks that are free-list nodes.
FreeBlocks(m) == {i \in DOMAIN m.dynamic : m.dynamic[i].free}

\* The blocks met on following the free list from a block, over at most n links.
RECURSIVE FreeListFrom(_, _, _)
FreeListFrom(m, index, n) ==
    IF index = NIL \/ n = 0
    THEN {}
    ELSE {index} \cup FreeListFrom(m, m.dynamic[index].next_index, n - 1)

(* C14: after any allocations and frees the free list holds exactly the    *)
(* free blocks; has_free_block is true exactly when there is at least one  *)
(* of them, which is when the head index is not NIL; has_two_free_blocks   *)
(* is true exactly when there are at least two, which is when the head is  *)
(* not NIL and the head node has a next; and has_two_free_blocks implies   *)
(* has_free_block.                                                         *)
C14_FreeListOccupancy ==
    /\ FreeListFrom(market, market.free_list_head_index, MaxBlocks + 1) = FreeBlocks(market)
    /\ last.op = "has_free_block" =>
          /\ last.result = (Cardinality(FreeBlocks(market)) >= 1)
          /\ last.result = (market.free_list_head_index # NIL)
    /\ last.op = "has_two_free_blocks" =>
          /\ last.result = (Cardinality(FreeBlocks(market)) >= 2)
          /\ last.result = (/\ market.free_list_head_index # NIL
                            /\ market.dynamic[market.free_list_head_index].next_index # NIL)
          /\ last.result => market.free_list_head_index # NIL

(* One block was free, the head of the free list without a next, when      *)
(* has_two_free_blocks was asked, and it answered false.                   *)
C14_Witness ==
    /\ last.op = "has_two_free_blocks"
    /\ Cardinality(FreeBlocks(market)) = 1
    /\ market.free_list_head_index # NIL
    /\ last.result = FALSE

-----------------------------------------------------------------------------
(* validation/manifest_checker.rs: loading an account as a typed view. The *)
(* outcome of a loader is "Ok", the name of the ProgramError it returns,   *)
(* or "panic".                                                             *)

\* The bytes the data of an account is made of: zero, and the discriminant's byte.
Bytes == {0, Discriminant}

Owners == {"manifest", "other"}

\* The accounts a loader is handed: any owner, data up to one byte past a header.
Accounts ==
    [owner : Owners,
     data : UNION {[1..n -> Bytes] : n \in 0..(HeaderSize + 1)},
     borrow : {-1, 0, 1}]

verify_owned_by_manifest(owner) ==
    IF owner = "manifest" THEN "Ok" ELSE "IllegalOwner"

\* ManifestAccount::verify_discriminant on the header at the start of the bytes.
verify_discriminant(header_bytes) ==
    IF header_bytes[1] = Discriminant THEN "Ok" ELSE "InvalidAccountData"

verify_uninitialized(info) ==
    IF info.borrow < 0
    THEN "AccountBorrowFailed"
    ELSE IF HeaderSize # Len(info.data)
    THEN "InvalidAccountData"
    ELSE IF \E i \in 1..Len(info.data) : info.data[i] # 0
    THEN "InvalidAccountData"
    ELSE "Ok"

(* ManifestAccountInfo::new: bytes.split_at(size_of::<T>()) panics when    *)
(* the data is shorter than the header.                                    *)
ManifestAccountInfo_new(info) ==
    IF verify_owned_by_manifest(info.owner) # "Ok"
    THEN verify_owned_by_manifest(info.owner)
    ELSE IF info.borrow < 0
    THEN "AccountBorrowFailed"
    ELSE IF HeaderSize > Len(info.data)
    THEN "panic"
    ELSE verify_discriminant(SubSeq(info.data, 1, HeaderSize))

ManifestAccountInfo_new_init(info) ==
    IF verify_owned_by_manifest(info.owner) # "Ok"
    THEN verify_owned_by_manifest(info.owner)
    ELSE verify_uninitialized(info)

InitLoad ==
    /\ bids = <<>>
    /\ asks = <<>>
    /\ order_sequence_number = 0
    /\ globals = <<FundedGlobal, FundedGlobal>>
    /\ market = NoBlocks
    /\ account \in Accounts
    /\ last = NoCall

\* ManifestAccountInfo::new on the account; the borrow it takes is dropped on return.
LoadNew ==
    /\ last' = [op |-> "new", info |-> account, result |-> ManifestAccountInfo_new(account)]
    /\ UNCHANGED <<bids, asks, order_sequence_number, globals, market, account>>

\* ManifestAccountInfo::new_init on the account.
LoadNewInit ==
    /\ last' = [op |-> "new_init", info |-> account,
                result |-> ManifestAccountInfo_new_init(account)]
    /\ UNCHANGED <<bids, asks, order_sequence_number, globals, market, account>>

NextLoad ==
    \/ LoadNew
    \/ LoadNewInit

SpecLoad == InitLoad /\ [][NextLoad]_vars

\* Whether the data of an account starts with a header that bears the discriminant.
HasMatchingHeader(info) ==
    Len(info.data) >= HeaderSize /\ info.data[1] = Discriminant

\* Whether the data of an account is a header's worth of zero bytes.
IsZeroedHeader(info) ==
    Len(info.data) = HeaderSize /\ \A i \in 1..Len(info.data) : info.data[i] = 0

(* C15 as stated: for an account whose data can be read, each loader       *)
(* succeeds or                                                             *)
(* returns a typed error and leaves the account as it was: new returns     *)
(* IllegalOwner for an account the program does not own and                *)
(* InvalidAccountData for one it owns whose data does not start with a     *)
(* header bearing the discriminant; new_init succeeds exactly for an       *)
(* account the program owns whose data is exactly a header of zero bytes,  *)
(* and otherwise returns IllegalOwner, checked first, or                   *)
(* InvalidAccountData.                                                     *)
C15_TypedErrorOnEveryViolation ==
    (last.op \in {"new", "new_init"} /\ last.info.borrow >= 0) =>
        /\ account = last.info
        /\ last.result \in {"Ok", "IllegalOwner", "InvalidAccountData"}
        /\ last.info.owner # "manifest" => last.result = "IllegalOwner"
        /\ (last.op = "new" /\ last.info.owner = "manifest") =>
              last.result = IF HasMatchingHeader(last.info) THEN "Ok" ELSE "InvalidAccountData"
        /\ (last.op = "new_init" /\ last.info.owner = "manifest") =>
              last.result = IF IsZeroedHeader(last.info) THEN "Ok" ELSE "InvalidAccountData"

-----------------------------------------------------------------------------
(* The rounding of the quote amount of a match. *)

\* The rounding that favours the taker on a full match and the resting side otherwise.
RoundsUp(fully) == IF last.is_bid THEN ~fully ELSE fully

(* C16: in an iteration that matches an order, the quote amount is that of *)
(* the matched base atoms at the order's price, rounded down on a full     *)
(* match and up on a partial one for a taker bid, up on a full match and   *)
(* down on a partial one for a taker ask. It is the amount that            *)
(* impact_quote_atoms_with_slot adds to the total, that                    *)
(* impact_base_atoms_with_slot takes off the remaining cap after a full    *)
(* match, and that the owner of a Global bid must hold.                    *)
C16_RoundingDirection ==
    LastIsImpact =>
        \A i \in 1..Len(LastBook) :
            LET order == LastBook[i]
                s == StateAt(i)
                t == StepAt(order, s)
                m == ExactMatch(order, s)
                quote == QuoteValue(order.price, m.base, RoundsUp(m.fully))
                backed == order.order_type = "Global" =>
                              OwnerBalance(order) >= (IF last.is_bid THEN m.base ELSE quote)
            IN (/\ s.ctl = "next"
                /\ ~Expired(order, last.now_slot)
                /\ order.order_type = "Global" => LastHasGlobal
                /\ t.ctl # "err") =>
                    /\ (last.is_bid /\ m.fully) =>
                          quote * PriceScale <= order.price * m.base
                    /\ (last.is_bid /\ ~m.fully) =>
                          quote * PriceScale >= order.price * m.base
                    /\ (~last.is_bid /\ m.fully) =>
                          quote * PriceScale >= order.price * m.base
                    /\ (~last.is_bid /\ ~m.fully) =>
                          quote * PriceScale <= order.price * m.base
                    /\ ~backed => t = s
                    /\ (backed /\ last.op = "impact_quote") => t.total = s.total + quote
                    /\ (backed /\ last.op = "impact_base" /\ m.fully) =>
                          t.remaining = s.remaining - quote

(* One base atom of an ask of 100 at 1.5 was bought, a partial match: the  *)
(* 1.5 quote atoms were rounded up to 2.                                   *)
C16_Witness ==
    /\ last.op = "impact_quote"
    /\ last.is_bid
    /\ last.limit = 1
    /\ Len(asks) >= 1
    /\ asks[1].price = 3
    /\ asks[1].num_base_atoms = 100
    /\ asks[1].order_type = "Limit"
    /\ asks[1].last_valid_slot = 0
    /\ last.result = Ok(2)

-----------------------------------------------------------------------------
(* Where the walk of a simulator ends. *)

\* Whether the recorded call's iteration on the order at index i matches that order.
MatchesAt(i) ==
    /\ StateAt(i).ctl = "next"
    /\ Counted(LastBook[i], StateAt(i))
    /\ StepAt(LastBook[i], StateAt(i)).ctl # "err"

\* Whether that match consumes the order and leaves nothing of the cap.
ExhaustsCapAt(i) ==
    /\ ExactMatch(LastBook[i], StateAt(i)).fully
    /\ StepAt(LastBook[i], StateAt(i)).remaining = 0

(* C17 as stated: in both simulators the iteration that matches an order   *)
(* only in part, or that matches it in full and leaves a cap of exactly    *)
(* zero, leaves the loop.                                                  *)
C17_LoopLeftAtZeroInBoth ==
    LastIsImpact =>
        \A i \in 1..Len(LastBook) :
            (MatchesAt(i) /\ (~ExactMatch(LastBook[i], StateAt(i)).fully \/ ExhaustsCapAt(i))) =>
                StepAt(LastBook[i], StateAt(i)).ctl = "break"

(* C17: a partial match of a counted order leaves the loop of either       *)
(* simulator; a full match that leaves a cap of exactly zero leaves the    *)
(* loop of impact_base_atoms_with_slot, while that of                      *)
(* impact_quote_atoms_with_slot goes on to the orders behind, each of      *)
(* which it matches for zero atoms. In every one of these cases the total  *)
(* reached is the result, that of the book cut after the order, and no     *)
(* later iteration changes it or fails.                                    *)
C17_StopConditions ==
    LastIsImpact =>
        \A i \in 1..Len(LastBook) :
            LET order == LastBook[i]
                s == StateAt(i)
                t == StepAt(order, s)
                m == ExactMatch(order, s)
            IN (MatchesAt(i) /\ (~m.fully \/ ExhaustsCapAt(i))) =>
                  /\ ~m.fully => t.ctl = "break"
                  /\ (m.fully /\ last.op = "impact_base") => t.ctl = "break"
                  /\ (m.fully /\ last.op = "impact_quote") =>
                        /\ t.ctl = "next"
                        /\ \A j \in (i + 1)..Len(LastBook) :
                              LET u == StateAt(j)
                                  v == StepAt(LastBook[j], u)
                              IN u.ctl = "next" =>
                                    /\ v.total = t.total
                                    /\ v.remaining = 0
                                    /\ v.ctl # "err"
                                    /\ Counted(LastBook[j], u) => v.ctl = "break"
                  /\ last.result = Ok(t.total)
                  /\ last.result = SimOn(SubSeq(LastBook, 1, i))
                  /\ \A j \in (i + 1)..(Len(LastBook) + 1) : StateAt(j).total = t.total

(* An ask of 1 base atom at 1.5 was bought whole with a cap of 1, and the  *)
(* limit ask of 100 behind it added nothing: the result is 1 quote atom.   *)
C17_Witness ==
    /\ last.op = "impact_quote"
    /\ last.is_bid
    /\ last.limit = 1
    /\ Len(asks) = 2
    /\ asks[1].price = 3 /\ asks[1].num_base_atoms = 1
    /\ asks[1].order_type = "Limit" /\ asks[1].last_valid_slot = 0
    /\ asks[2].order_type = "Limit" /\ asks[2].num_base_atoms = 100
    /\ asks[2].last_valid_slot = 0
    /\ StateAt(2) = LoopState(1, 0, "next")
    /\ last.result = Ok(1)

-----------------------------------------------------------------------------
(* The order of the checks of expiration and of the global account. *)

(* C18: an expired Global order met by a call without the global account   *)
(* of the walked side is skipped and does not stop the walk: the iteration *)
(* leaves the state of the walk as it is, the result is that of the book   *)
(* without the order, and a live limit order right behind it is counted.   *)
C18_ExpirationBeforeGlobalCheck ==
    (LastIsImpact /\ ~LastHasGlobal) =>
        \A i \in 1..Len(LastBook) :
            LET order == LastBook[i]
                s == StateAt(i)
            IN (order.order_type = "Global" /\ Expired(order, last.now_slot)) =>
                  /\ s.ctl = "next" => StepAt(order, s) = s
                  /\ StateAt(i + 1) = s
                  /\ last.result = SimOn(RemoveAt(LastBook, i))
                  /\ (/\ s.ctl = "next"
                      /\ i < Len(LastBook)
                      /\ LastBook[i + 1].order_type = "Limit"
                      /\ ~Expired(LastBook[i + 1], last.now_slot)) =>
                        StepAt(LastBook[i + 1], s) # s

(* The first order is an expired Global order, the call has no global      *)
(* account, and the live limit order behind it is counted.                 *)
C18_Witness ==
    /\ LastIsImpact /\ ~LastHasGlobal
    /\ Len(LastBook) = 2
    /\ LastBook[1].order_type = "Global" /\ Expired(LastBook[1], last.now_slot)
    /\ LastBook[2].order_type = "Limit" /\ ~Expired(LastBook[2], last.now_slot)
    /\ last.result.ok /\ last.result.val > 0
    /\ last.result = SimOn(<<LastBook[2]>>)

-----------------------------------------------------------------------------
(* The quote atoms that impact_base_atoms_with_slot spends of its cap. *)

(* C19: in impact_base_atoms_with_slot the quote atoms matched against a   *)
(* counted order are at most the quote atoms left of the cap, so that the  *)
(* iteration does not fail unless a conversion or the total leaves u64.    *)
C19_NeverOverspends ==
    last.op = "impact_base" =>
        \A i \in 1..Len(LastBook) :
            LET order == LastBook[i]
                s == StateAt(i)
                t == StepAt(order, s)
                m == ExactMatch(order, s)
            IN (/\ s.ctl = "next"
                /\ Counted(order, s)
                /\ m.cap_base <= U64Max
                /\ m.quote <= U64Max
                /\ m.total <= U64Max) =>
                    /\ m.quote <= s.remaining
                    /\ t.ctl # "err"

-----------------------------------------------------------------------------
(* The result of a simulator as a function of the caller's cap. *)

\* The recorded call made again with the cap n.
SimWithLimit(n) ==
    LET opts == GlobalTradeAccountsOpts(last.has_base_global, last.has_quote_global)
    IN IF last.op = "impact_quote"
       THEN impact_quote_atoms_with_slot(bids, asks, last.is_bid, n, opts, last.now_slot)
       ELSE impact_base_atoms_with_slot(bids, asks, last.is_bid, n, opts, last.now_slot)

(* C20: on the same market, slot, side and global accounts, a call with a  *)
(* cap that is at least the cap of the recorded call returns a total that  *)
(* is at least the total of the recorded call, when both return one.       *)
C20_MonotoneInCap ==
    (LastIsImpact /\ last.result.ok) =>
        \A n \in Limits :
            (n >= last.limit /\ SimWithLimit(n).ok) =>
                SimWithLimit(n).val >= last.result.val

-----------------------------------------------------------------------------
(* The side to which reverse_price moves the price. *)

(* C21: for a reversible order, whatever its 16-bit reverse_spread, the    *)
(* divisor denominator - spread is positive, so that reverse_price fails   *)
(* only when the product of the conversion leaves u128; the price it       *)
(* returns is at least the price of a bid and at most the price of an ask, *)
(* and is the price itself when the spread is 0, as it is after            *)
(* construction.                                                           *)
C21_ReverseFavoursMaker ==
    /\ \A p \in ReversePrices, o \in {"Reverse", "ReverseTight"}, b \in BOOLEAN :
          LET made == RestingOrder_new(1, 100, p, 0, NO_EXPIRATION_LAST_VALID_SLOT, b, o)
          IN /\ made.order.reverse_spread = 0
             /\ reverse_price(made.order).ok => reverse_price(made.order).val = p
    /\ (last.op = "reverse_price" /\ is_reversible(last.order.order_type)) =>
        LET order == last.order
            den == SpreadDenominator(order)
            rest == den - order.reverse_spread
        IN /\ order.reverse_spread \in 0..65535
           /\ rest > 0
           /\ ~last.result.ok =>
                 order.price * (IF order.is_bid THEN den ELSE rest) > U128Max
           /\ last.result.ok =>
                 /\ order.is_bid => last.result.val >= order.price
                 /\ ~order.is_bid => last.result.val <= order.price
                 /\ order.reverse_spread = 0 => last.result.val = order.price

(* The reverse price of a Reverse ask at 20 with the greatest spread was   *)
(* asked for, and 7 came back.                                             *)
C21_Witness ==
    /\ last.op = "reverse_price"
    /\ last.order.order_type = "Reverse"
    /\ ~last.order.is_bid
    /\ last.order.price = 20
    /\ last.order.reverse_spread = 65535
    /\ last.result = Ok(7)

-----------------------------------------------------------------------------
(* The equality of reversible orders at the ends of the range of prices. *)

(* C22: a comparison of two reversible orders of one trader and one order  *)
(* type returns a boolean whatever the two raw prices, 0 and the greatest  *)
(* included: its price + 1 and price - 1 stay in u128, so that the orders  *)
(* are equal exactly when their prices are equal or differ by one, and     *)
(* the comparison made the other way round returns the same.               *)
C22_TotalAndSymmetric ==
    (/\ last.op = "eq"
     /\ SameTraderAndType(last.self, last.other)
     /\ is_reversible(last.self.order_type)) =>
        /\ ~last.result.panicked
        /\ last.result.value = (\/ last.self.price = last.other.price
                                \/ Adjacent(last.self.price, last.other.price))
        /\ ~eq(last.other, last.self, last.overflow_checks).panicked
        /\ eq(last.other, last.self, last.overflow_checks).value = last.result.value

====
